---- MODULE Spec2Model ----
(***************************************************************************)
(* Model of camera-server's users_cameras module: the users_cameras join   *)
(* table (CRUD through Diesel), the "cameras of a user" join query, the    *)
(* access check built on it, and the GET /ListCameras handler.             *)
(*                                                                         *)
(* The table is a sequence of rows in storage order.  Every Diesel call is *)
(* one SQL statement, modelled as one atomic step.  A statement either     *)
(* reaches the store (conn = TRUE) or fails with a database error          *)
(* (conn = FALSE); the outcome is an input of every call.                  *)
(***************************************************************************)
EXTENDS Integers, Sequences, FiniteSets

\* ------------------------------------------------------------------ bounds

\* Largest users_cameras_id (i32 in the source) the model uses.
MaxId == 2

Ids == 1..MaxId

\* user_id values (uuid::Uuid in the source).
Users == {"u1", "u2"}

\* camera_id values (uuid::Uuid in the source); "c2" names no camera entity.
UuidValues == {"c1", "c2"}

\* The two concurrent callers of the concurrency specification.
Callers == {"A", "B"}

\* ------------------------------------------------------- Rocket statuses

Unauthorized == 401

UnprocessableEntity == 422

InternalServerError == 500

\* --------------------------------------------------------------- results

Ok(v) == [tag |-> "Ok", value |-> v]

\* Err of a QueryResult (diesel::result::Error).
Err(e) == [tag |-> "Err", error |-> e]

\* ApiError { error, status }.
ApiError(msg, st) == [tag |-> "Err", error |-> msg, status |-> st]

\* ------------------------------------------------------------ data model

\* struct UsersCamera: a row of users_cameras.
UsersCamera == [users_cameras_id : Ids, camera_id : UuidValues, user_id : Users]

\* struct InsertableUsersCamera: a row without its id.
InsertableUsersCamera == [camera_id : UuidValues, user_id : Users]

\* The cameras table (owned by the camera module), rows (camera_id, name).
cameras == << [camera_id |-> "c1", name |-> "front"] >>

\* A camera id string as a caller supplies it: its textual form and the
\* hex digits it spells.  Uuid::parse_str accepts several spellings of one id.
CameraIdStrings == [form : {"hyphenated", "simple", "malformed"}, digits : UuidValues]

\* uuid::Uuid::parse_str
parse_str(s) ==
  IF s.form = "malformed" THEN Err("ParseError") ELSE Ok(s.digits)

VARIABLES users_cameras, last, pc, req, resp, order

vars == <<users_cameras, last, pc, req, resp, order>>

\* ------------------------------------------------------- store statements

\* users_cameras::table.find(id): the rows whose primary key is id.
find(id, t) == SelectSeq(t, LAMBDA r : r.users_cameras_id = id)

\* The ids in use in table t.
UsedIds(t) == {t[k].users_cameras_id : k \in 1..Len(t)}

\* pub fn all
all(conn, t) ==
  IF ~conn THEN Err("DatabaseError") ELSE Ok(t)

\* pub fn get
get(users_cameras_id, conn, t) ==
  IF ~conn THEN Err("DatabaseError")
  ELSE IF Len(find(users_cameras_id, t)) = 0 THEN Err("NotFound")
  ELSE Ok(find(users_cameras_id, t)[1])

\* insert that returns the row it built without storing it.
insert_discard(users_camera, new_id, conn, t) ==
  IF ~conn THEN [res |-> Err("DatabaseError"), table |-> t]
  ELSE [res |-> Ok([users_cameras_id |-> new_id,
                    camera_id |-> users_camera.camera_id,
                    user_id |-> users_camera.user_id]),
        table |-> t]

\* pub fn insert: INSERT ... RETURNING; new_id is the id the store assigns.
insert(users_camera, new_id, conn, t) ==
  IF ~conn THEN [res |-> Err("DatabaseError"), table |-> t]
  ELSE LET row == [users_cameras_id |-> new_id,
                   camera_id |-> users_camera.camera_id,
                   user_id |-> users_camera.user_id]
       IN [res |-> Ok(row), table |-> Append(t, row)]

\* #[derive(AsChangeset)] on UsersCamera: the columns the SET clause assigns.
\* The struct names no #[primary_key(..)], so Diesel takes the key to be a
\* column "id"; users_cameras_id is an ordinary column and is assigned too.
AsChangeset(users_camera) ==
  [users_cameras_id |-> users_camera.users_cameras_id,
   camera_id |-> users_camera.camera_id,
   user_id |-> users_camera.user_id]

\* update that stores the supplied row when no row has the id (an upsert).
update_upsert(users_cameras_id, users_camera, conn, t) ==
  IF ~conn THEN [res |-> Err("DatabaseError"), table |-> t]
  ELSE IF Len(find(users_cameras_id, t)) = 0
  THEN [res |-> Ok(AsChangeset(users_camera)),
        table |-> Append(t, AsChangeset(users_camera))]
  ELSE [res |-> Ok(AsChangeset(users_camera)),
        table |-> [k \in 1..Len(t) |->
                     IF t[k].users_cameras_id = users_cameras_id
                     THEN AsChangeset(users_camera) ELSE t[k]]]

\* pub fn update: UPDATE ... WHERE users_cameras_id = id SET <changeset> RETURNING.
update(users_cameras_id, users_camera, conn, t) ==
  IF ~conn THEN [res |-> Err("DatabaseError"), table |-> t]
  ELSE IF Len(find(users_cameras_id, t)) = 0
  THEN [res |-> Err("NotFound"), table |-> t]
  ELSE LET new == AsChangeset(users_camera)
       IN IF new.users_cameras_id # users_cameras_id
             /\ new.users_cameras_id \in UsedIds(t)
          THEN [res |-> Err("UniqueViolation"), table |-> t]
          ELSE [res |-> Ok(new),
                table |-> [k \in 1..Len(t) |->
                             IF t[k].users_cameras_id = users_cameras_id
                             THEN new ELSE t[k]]]

\* delete without the find(id) filter: DELETE FROM users_cameras.
delete_unfiltered(users_cameras_id, conn, t) ==
  IF ~conn THEN [res |-> Err("DatabaseError"), table |-> t]
  ELSE [res |-> Ok(Len(t)), table |-> << >>]

\* pub fn delete: DELETE ... WHERE users_cameras_id = id, returns the row count.
delete(users_cameras_id, conn, t) ==
  IF ~conn THEN [res |-> Err("DatabaseError"), table |-> t]
  ELSE [res |-> Ok(Len(find(users_cameras_id, t))),
        table |-> SelectSeq(t, LAMBDA r : r.users_cameras_id # users_cameras_id)]

\* A join without its ON clause: every camera joins to every row.
JoinCamerasCross(row) == cameras

\* The cameras rows that join to one users_cameras row, projected to
\* (camera_id, name).
JoinCameras(row) ==
  SelectSeq(cameras, LAMBDA c : c.camera_id = row.camera_id)

RECURSIVE JoinRows(_, _)
\* filter(user_id.eq(user_id)).inner_join(cameras) over rows t, in order.
JoinRows(user_id, t) ==
  IF t = << >> THEN << >>
  ELSE (IF Head(t).user_id = user_id THEN JoinCameras(Head(t)) ELSE << >>)
       \o JoinRows(user_id, Tail(t))

\* pub fn get_users_cameras
get_users_cameras(user_id, conn, t) ==
  IF ~conn THEN Err("DatabaseError") ELSE Ok(JoinRows(user_id, t))

\* ------------------------------------------------------------ access gate

\* An access check whose scan only tests that the user has some camera.
check_any_camera(conn, user_token, camera_id_string, t) ==
  LET camera_id == parse_str(camera_id_string)
  IN IF camera_id.tag = "Err"
     THEN [res |-> ApiError("Failed to parse camera ID string", UnprocessableEntity),
           queries |-> 0]
     ELSE LET users_cameras_list == get_users_cameras(user_token.user_id, conn, t)
          IN IF users_cameras_list.tag = "Err"
             THEN [res |-> ApiError("Failed to get list of owned cameras",
                                    InternalServerError),
                   queries |-> 1]
             ELSE IF Len(users_cameras_list.value) = 0
             THEN [res |-> ApiError("User does not have access to camera", Unauthorized),
                   queries |-> 1]
             ELSE [res |-> Ok(<< >>), queries |-> 1]

\* An access check that fetches the user's cameras before it parses the string.
check_fetch_first(conn, user_token, camera_id_string, t) ==
  LET users_cameras_list == get_users_cameras(user_token.user_id, conn, t)
      camera_id == parse_str(camera_id_string)
  IN IF users_cameras_list.tag = "Err"
     THEN [res |-> ApiError("Failed to get list of owned cameras", InternalServerError),
           queries |-> 1]
     ELSE IF camera_id.tag = "Err"
     THEN [res |-> ApiError("Failed to parse camera ID string", UnprocessableEntity),
           queries |-> 1]
     ELSE IF ~(\E k \in 1..Len(users_cameras_list.value) :
                 users_cameras_list.value[k].camera_id = camera_id.value)
     THEN [res |-> ApiError("User does not have access to camera", Unauthorized),
           queries |-> 1]
     ELSE [res |-> Ok(<< >>), queries |-> 1]

\* pub fn check_if_user_has_access_to_camera.  res is the function's result;
\* queries counts the store statements the call issued.
check_if_user_has_access_to_camera(conn, user_token, camera_id_string, t) ==
  LET camera_id == parse_str(camera_id_string)
  IN IF camera_id.tag = "Err"
     THEN [res |-> ApiError("Failed to parse camera ID string", UnprocessableEntity),
           queries |-> 0]
     ELSE LET users_cameras_list == get_users_cameras(user_token.user_id, conn, t)
          IN IF users_cameras_list.tag = "Err"
             THEN [res |-> ApiError("Failed to get list of owned cameras",
                                    InternalServerError),
                   queries |-> 1]
             ELSE IF ~(\E k \in 1..Len(users_cameras_list.value) :
                         users_cameras_list.value[k].camera_id = camera_id.value)
             THEN [res |-> ApiError("User does not have access to camera", Unauthorized),
                   queries |-> 1]
             ELSE [res |-> Ok(<< >>), queries |-> 1]

\* A listing that answers 401 to a caller without cameras.
list_cameras_empty_unauthorized(conn, user_token, t) ==
  LET camera_list == get_users_cameras(user_token.user_id, conn, t)
  IN IF camera_list.tag = "Err"
     THEN ApiError("Database failed to get list of cameras", InternalServerError)
     ELSE IF camera_list.value = << >>
     THEN ApiError("User does not have access to camera", Unauthorized)
     ELSE Ok(camera_list.value)

\* #[get("/ListCameras")] pub fn list_cameras
list_cameras(conn, user_token, t) ==
  LET camera_list == get_users_cameras(user_token.user_id, conn, t)
  IN IF camera_list.tag = "Err"
     THEN ApiError("Database failed to get list of cameras", InternalServerError)
     ELSE Ok(camera_list.value)

\* The HTTP status Rocket answers with for a handler result.
ResponseStatus(res) == IF res.tag = "Ok" THEN 200 ELSE res.status

\* The ids the store may assign to a new row: any id not in use.
AssignableIds(t) == Ids \ UsedIds(t)

\* -------------------------------------------------- sequential API calls

NoCall == [op |-> "none"]

Idle == [c \in Callers |-> "idle"]

NoReq == [c \in Callers |-> [op |-> "none"]]

Init ==
  /\ users_cameras = << >>
  /\ last = NoCall
  /\ pc = Idle
  /\ req = NoReq
  /\ resp = NoReq
  /\ order = << >>

CallersIdle == UNCHANGED <<pc, req, resp, order>>

All ==
  \E conn \in BOOLEAN :
    /\ last' = [op |-> "all", conn |-> conn, res |-> all(conn, users_cameras)]
    /\ UNCHANGED users_cameras
    /\ CallersIdle

\* A get that removes the row it returns.
GetTakes ==
  \E id \in Ids, conn \in BOOLEAN :
    /\ last' = [op |-> "get", id |-> id, conn |-> conn,
                res |-> get(id, conn, users_cameras)]
    /\ users_cameras' = delete(id, conn, users_cameras).table
    /\ CallersIdle

Get ==
  \E id \in Ids, conn \in BOOLEAN :
    /\ last' = [op |-> "get", id |-> id, conn |-> conn,
                res |-> get(id, conn, users_cameras)]
    /\ UNCHANGED users_cameras
    /\ CallersIdle

Insert ==
  \E users_camera \in InsertableUsersCamera, conn \in BOOLEAN :
    \E new_id \in AssignableIds(users_cameras) :
      LET out == insert(users_camera, new_id, conn, users_cameras)
      IN /\ users_cameras' = out.table
         /\ last' = [op |-> "insert", rec |-> users_camera, conn |-> conn,
                     before |-> users_cameras, res |-> out.res]
         /\ CallersIdle

Update ==
  \E id \in Ids, users_camera \in UsersCamera, conn \in BOOLEAN :
    LET out == update(id, users_camera, conn, users_cameras)
    IN /\ users_cameras' = out.table
       /\ last' = [op |-> "update", id |-> id, rec |-> users_camera, conn |-> conn,
                   before |-> users_cameras, res |-> out.res]
       /\ CallersIdle

Delete ==
  \E id \in Ids, conn \in BOOLEAN :
    LET out == delete(id, conn, users_cameras)
    IN /\ users_cameras' = out.table
       /\ last' = [op |-> "delete", id |-> id, conn |-> conn,
                   before |-> users_cameras, res |-> out.res]
       /\ CallersIdle

GetUsersCameras ==
  \E user_id \in Users, conn \in BOOLEAN :
    /\ last' = [op |-> "get_users_cameras", user |-> user_id, conn |-> conn,
                res |-> get_users_cameras(user_id, conn, users_cameras)]
    /\ UNCHANGED users_cameras
    /\ CallersIdle

CheckAccess ==
  \E user_id \in Users, s \in CameraIdStrings, conn \in BOOLEAN :
    LET out == check_if_user_has_access_to_camera(
                 conn, [user_id |-> user_id], s, users_cameras)
    IN /\ last' = [op |-> "check_access", user |-> user_id, str |-> s, conn |-> conn,
                   res |-> out.res, queries |-> out.queries]
       /\ UNCHANGED users_cameras
       /\ CallersIdle

ListCameras ==
  \E user_id \in Users, conn \in BOOLEAN :
    /\ last' = [op |-> "list_cameras", user |-> user_id, conn |-> conn,
                res |-> list_cameras(conn, [user_id |-> user_id], users_cameras)]
    /\ UNCHANGED users_cameras
    /\ CallersIdle

Next ==
  \/ All
  \/ Get
  \/ Insert
  \/ Update
  \/ Delete
  \/ GetUsersCameras
  \/ CheckAccess
  \/ ListCameras

Spec == Init /\ [][Next]_vars

\* ------------------------------------------- two callers updating at once

\* The tables the concurrent callers start from: what one or two inserts leave.
StartTables ==
  {<<r>> : r \in UsersCamera}
    \cup {<<r1, r2>> : r1 \in {r \in UsersCamera : r.users_cameras_id = 1},
                       r2 \in {r \in UsersCamera : r.users_cameras_id = 2}}

InitConc ==
  /\ users_cameras \in StartTables
  /\ last = NoCall
  /\ pc = Idle
  /\ req = NoReq
  /\ resp = NoReq
  /\ order = << >>

\* A caller enters update(id, users_camera, connection).
UpdateCall(c) ==
  /\ pc[c] = "idle"
  /\ \E id \in Ids, users_camera \in UsersCamera :
       req' = [req EXCEPT ![c] = [op |-> "update", id |-> id, rec |-> users_camera]]
  /\ pc' = [pc EXCEPT ![c] = "called"]
  /\ UNCHANGED <<users_cameras, last, resp, order>>

\* The store executes the caller's UPDATE statement, atomically.
UpdateExec(c) ==
  /\ pc[c] = "called"
  /\ \E conn \in BOOLEAN :
       LET out == update(req[c].id, req[c].rec, conn, users_cameras)
       IN /\ users_cameras' = out.table
          /\ resp' = [resp EXCEPT ![c] =
                        [op |-> "update", conn |-> conn, res |-> out.res,
                         existed |-> req[c].id \in UsedIds(users_cameras),
                         inflight |-> {d \in Callers \ {c} : pc[d] = "called"}]]
  /\ pc' = [pc EXCEPT ![c] = "returned"]
  /\ order' = Append(order, c)
  /\ UNCHANGED <<last, req>>

\* The caller takes its result and is free to call again.
UpdateReturn(c) ==
  /\ pc[c] = "returned"
  /\ pc' = [pc EXCEPT ![c] = "idle"]
  /\ req' = [req EXCEPT ![c] = [op |-> "none"]]
  /\ resp' = [resp EXCEPT ![c] = [op |-> "none"]]
  /\ order' = SelectSeq(order, LAMBDA d : d # c)
  /\ UNCHANGED <<users_cameras, last>>

NextConc ==
  \E c \in Callers :
    \/ UpdateCall(c)
    \/ UpdateExec(c)
    \/ UpdateReturn(c)

SpecConc == InitConc /\ [][NextConc]_vars

\* ================================================================= claims

\* Association rows of table t that belong to user u.
RowsOf(u, t) == {k \in 1..Len(t) : t[k].user_id = u}

\* Ids of the camera entities.
CameraEntityIds == {cameras[j].camera_id : j \in 1..Len(cameras)}

\* The camera ids user u has access to in table t: those of u's association
\* rows that name a camera entity.
OwnedCameraIds(u, t) == {t[k].camera_id : k \in RowsOf(u, t)} \cap CameraEntityIds

\* How many times element e occurs in sequence q.
Occurrences(e, q) == Cardinality({k \in 1..Len(q) : q[k] = e})

\* C1: an access check whose store query ran succeeds when the string parses
\* to a camera id among the user's cameras, fails with 401 Unauthorized when
\* it parses to a camera id not among them, and a string that does not parse
\* fails with 422 in every case.
C1_CheckAccessOutcome ==
  last.op = "check_access" =>
    LET parsed == parse_str(last.str)
    IN /\ parsed.tag = "Err" =>
            /\ last.res.tag = "Err"
            /\ last.res.status = UnprocessableEntity
       /\ (parsed.tag = "Ok" /\ last.conn) =>
            IF parsed.value \in OwnedCameraIds(last.user, users_cameras)
            THEN last.res.tag = "Ok"
            ELSE last.res.tag = "Err" /\ last.res.status = Unauthorized

\* A check that succeeded for a camera the user shares with another user.
C1_Witness ==
  /\ last.op = "check_access"
  /\ last.res.tag = "Ok"
  /\ last.str.form = "simple"
  /\ \E u \in Users \ {last.user} :
       last.str.digits \in OwnedCameraIds(u, users_cameras)

\* C2: after a successful update(i, rec), get(i) returns a row with rec's
\* camera and user and with id i: the update never changes the row's id.
C2_UpdateKeepsId ==
  (last.op = "update" /\ last.res.tag = "Ok") =>
    get(last.id, TRUE, users_cameras)
      = Ok([users_cameras_id |-> last.id,
            camera_id |-> last.rec.camera_id,
            user_id |-> last.rec.user_id])

C4_DeleteCounts ==
  (last.op = "delete" /\ last.conn) =>
    /\ last.res.tag = "Ok"
    /\ last.id \in UsedIds(last.before) =>
         /\ last.res.value = 1
         /\ Len(users_cameras) = Len(last.before) - 1
    /\ last.id \notin UsedIds(last.before) =>
         /\ last.res.value = 0
         /\ users_cameras = last.before
    /\ get(last.id, TRUE, users_cameras) = Err("NotFound")
    /\ \A k \in 1..Len(last.before) :
         last.before[k].users_cameras_id # last.id
           => Occurrences(last.before[k], users_cameras) = 1
    /\ delete(last.id, TRUE, users_cameras) = [res |-> Ok(0), table |-> users_cameras]

\* A delete that removed one row of a two-row table.
C4_Witness ==
  /\ last.op = "delete"
  /\ last.res = Ok(1)
  /\ Len(last.before) = 2
  /\ Len(users_cameras) = 1

\* C5: the cameras-of-a-user query, whenever its statement runs, returns one
\* (camera_id, name) entry per association row of that user that names a
\* camera entity and nothing else; it is the empty sequence for a user
\* without association rows.
C5_CamerasForUser ==
  (last.op = "get_users_cameras" /\ last.conn) =>
    /\ last.res.tag = "Ok"
    /\ \A j \in 1..Len(cameras) :
         Occurrences(cameras[j], last.res.value)
           = Cardinality({k \in RowsOf(last.user, users_cameras) :
                            users_cameras[k].camera_id = cameras[j].camera_id})
    /\ \A k \in 1..Len(last.res.value) :
         \E j \in 1..Len(cameras) : last.res.value[k] = cameras[j]
    /\ RowsOf(last.user, users_cameras) = {} => last.res.value = << >>

\* A query that returned the same camera twice: the user holds two
\* association rows for it.
C5_Witness ==
  /\ last.op = "get_users_cameras"
  /\ last.res.tag = "Ok"
  /\ Len(last.res.value) = 2
  /\ last.res.value[1] = last.res.value[2]

\* C6: a get or an update whose statement ran on an id that no row has fails
\* with NotFound, and the failed update leaves the table as it was.
C6_MissingIdNotFound ==
  /\ (last.op = "get" /\ last.conn /\ last.id \notin UsedIds(users_cameras))
       => last.res = Err("NotFound")
  /\ (last.op = "update" /\ last.conn /\ last.id \notin UsedIds(last.before))
       => /\ last.res = Err("NotFound")
          /\ users_cameras = last.before

\* An update of an id no row has, on a table that holds another row.
C6_Witness ==
  /\ last.op = "update"
  /\ last.res = Err("NotFound")
  /\ Len(users_cameras) = 1
  /\ last.rec.users_cameras_id = last.id

\* C7: the listing endpoint answers 200 with exactly the caller's cameras
\* (possibly none) when the store query runs and 500 when it fails; it never
\* answers with any other status.
C7_ListCamerasStatus ==
  last.op = "list_cameras" =>
    /\ ResponseStatus(last.res) \in {200, InternalServerError}
    /\ last.conn =>
         /\ ResponseStatus(last.res) = 200
         /\ Len(last.res.value)
              = Cardinality({k \in RowsOf(last.user, users_cameras) :
                               users_cameras[k].camera_id \in CameraEntityIds})
         /\ \A k \in 1..Len(last.res.value) :
              /\ last.res.value[k].camera_id \in OwnedCameraIds(last.user, users_cameras)
              /\ \E j \in 1..Len(cameras) : last.res.value[k] = cameras[j]
    /\ ~last.conn => ResponseStatus(last.res) = InternalServerError

\* A listing answered 200 with an empty list for a caller whose only
\* association row names no camera entity.
C7_Witness ==
  /\ last.op = "list_cameras"
  /\ ResponseStatus(last.res) = 200
  /\ last.res.value = << >>
  /\ RowsOf(last.user, users_cameras) # {}

\* C8: a malformed camera id string fails the access check with 422 before
\* any store statement is issued, also when the store is unreachable; a
\* well-formed one whose store query fails yields 500.
C8_ParseBeforeFetch ==
  last.op = "check_access" =>
    /\ parse_str(last.str).tag = "Err" =>
         /\ last.res.tag = "Err"
         /\ last.res.status = UnprocessableEntity
         /\ last.queries = 0
    /\ (parse_str(last.str).tag = "Ok" /\ ~last.conn) =>
         /\ last.res.tag = "Err"
         /\ last.res.status = InternalServerError
         /\ last.queries = 1

\* A malformed string checked while the store was unreachable.
C8_Witness ==
  /\ last.op = "check_access"
  /\ last.str.form = "malformed"
  /\ ~last.conn
  /\ last.res.status = UnprocessableEntity

\* C9: when two callers are inside update of the same existing row at once
\* and both statements run, both updates succeed and the row ends with the
\* camera and user of the statement that ran last.
C9_LastWriteWins ==
  ( /\ Len(order) = 2
    /\ req[order[1]].id = req[order[2]].id
    /\ resp[order[1]].existed
    /\ order[2] \in resp[order[1]].inflight
    /\ resp[order[1]].conn
    /\ resp[order[2]].conn )
  => /\ resp[order[1]].res.tag = "Ok"
     /\ resp[order[2]].res.tag = "Ok"
     /\ \E k \in 1..Len(users_cameras) :
          /\ users_cameras[k] = resp[order[2]].res.value
          /\ users_cameras[k].camera_id = req[order[2]].rec.camera_id
          /\ users_cameras[k].user_id = req[order[2]].rec.user_id

ReadOps == {"all", "get", "get_users_cameras", "check_access", "list_cameras"}

WriteOps == {"insert", "update", "delete"}

\* C10: a step of all, get, get_users_cameras, the access check or the
\* listing endpoint leaves the table unchanged whatever its outcome; a step
\* that changes the table is an insert, an update or a delete.
C10_ReadsKeepTable ==
  [][ /\ last'.op \in ReadOps => users_cameras' = users_cameras
      /\ users_cameras' # users_cameras => last'.op \in WriteOps ]_vars

\* A read that failed (an access check answered 401) on a table of two rows.
C10_Witness ==
  /\ last.op = "check_access"
  /\ last.res.tag = "Err"
  /\ last.res.status = Unauthorized
  /\ Len(users_cameras) = 2

====
